---- MODULE Spec2Model ----
(***************************************************************************)
(* Credential store and generation client of llm-service.ts.               *)
(*                                                                         *)
(* Strings are sequences of one-character strings, so that trim() is       *)
(* computed and not assumed.  undefined and null are the two sentinels     *)
(* below; neither is a sequence of characters.                             *)
(***************************************************************************)
EXTENDS Integers, Sequences, FiniteSets, TLC

VARIABLES
    hasStorage,     \* window.localStorage exists in this embedding
    localStorage,   \* persisted entry of each backend (Null when no item)
    env,            \* process.env.<BACKEND>_API_KEY, fixed at build time
    runtimeKeys,    \* the module-level cache
    calls,          \* the generateContent invocations, one per slot
    requests,       \* the backend requests each invocation has issued
    ui,             \* the state of the App and Chat components
    last            \* the call that ran last, with its argument and result

vars == <<hasStorage, localStorage, env, runtimeKeys, calls, requests, ui, last>>

Undefined == <<"undefined">>
Null == <<"null">>

\* LLMProvider, in the order getAvailableProvider tries them
Providers == <<"gemini", "groq", "openai">>
Backends == {Providers[i] : i \in 1..Len(Providers)}

\* ---- strings ----------------------------------------------------------

IsWhitespace(c) == c = " "

RECURSIVE TrimStart(_)
TrimStart(s) ==
    IF s = <<>> THEN <<>>
    ELSE IF IsWhitespace(Head(s)) THEN TrimStart(Tail(s)) ELSE s

RECURSIVE TrimEnd(_)
TrimEnd(s) ==
    IF s = <<>> THEN <<>>
    ELSE IF IsWhitespace(s[Len(s)]) THEN TrimEnd(SubSeq(s, 1, Len(s) - 1)) ELSE s

\* String.prototype.trim
Trim(s) == TrimEnd(TrimStart(s))

\* JavaScript truthiness of a string | undefined | null
Truthy(v) == v # Undefined /\ v # Null /\ v # <<>>

\* a || b
Or(a, b) == IF Truthy(a) THEN a ELSE b

\* ---- inputs -----------------------------------------------------------

\* most spaces put around a typed key
MaxPad == 1

RECURSIVE Spaces(_)
Spaces(n) == IF n = 0 THEN <<>> ELSE <<" ">> \o Spaces(n - 1)

\* what a caller can put in one field of the argument of setApiKeys:
\* nothing (also a field that is not present), spaces only, or a key with
\* spaces around it
KeyInputs ==
    {Undefined} \cup
    { Spaces(n) \o core \o Spaces(n) : n \in 0..MaxPad, core \in {<<>>, <<"a">>} }

\* what the user can have typed in one field of the settings dialog
FieldInputs == { <<>>, <<" ", "a">> }

\* what an earlier setApiKeys of this program can have persisted
StoredValues == { <<"a">> }

\* build-time configuration defaults
EnvValues == { Undefined, <<"e">> }

\* what a caller can write into a field of an object it holds
Scribbles == { Undefined, <<"x">> }

\* the places of App.tsx that call generateContent and can each have one
\* invocation in flight
Callers == { "search", "analysis", "loadMore", "chat" }

NoKeys == [b \in Backends |-> Undefined]
NoItems == [b \in Backends |-> Null]

\* ---- llm-service.ts: the credential store ----------------------------

\* localStorage.getItem, setItem, removeItem (removeItem_Noop: the item stays)
getItem(ls, b) == ls[b]
setItem(ls, b, v) == [ls EXCEPT ![b] = v]
removeItem_Noop(ls, b) == ls
removeItem(ls, b) == [ls EXCEPT ![b] = Null]

\* initializeKeys: the object it assigns to the cache; the cache is left as
\* it is without window.localStorage
initializeKeys(rk, ls) ==
    IF hasStorage
    THEN [b \in Backends |-> Or(getItem(ls, b), Undefined)]
    ELSE rk

\* !runtimeKeys.gemini && !runtimeKeys.groq && !runtimeKeys.openai
AllEmpty(rk) == \A b \in Backends : ~Truthy(rk[b])

\* the cache after the "reinitialize if keys are empty" step (_Never: the
\* step is left out; _Always: it runs whatever the cache holds)
Reinitialized_Never(rk, ls) == rk

Reinitialized_Always(rk, ls) == initializeKeys(rk, ls)

Reinitialized(rk, ls) == IF AllEmpty(rk) THEN initializeKeys(rk, ls) ELSE rk

\* one if/else block of setApiKeys, on st = [keys, storage].  Variants:
\* _KeepsAbsent skips a field that is not supplied, _NoCache persists
\* without assigning the cache, _KeepsItem never calls removeItem,
\* _Untrimmed stores the value as supplied.
setApiKeysField_KeepsAbsent(st, b, v) ==
    IF v = Undefined THEN st
    ELSE IF Truthy(v) /\ Truthy(Trim(v))
    THEN [storage |-> setItem(st.storage, b, Trim(v)),
          keys |-> [st.keys EXCEPT ![b] = Trim(v)]]
    ELSE [storage |-> removeItem(st.storage, b),
          keys |-> [st.keys EXCEPT ![b] = Undefined]]

setApiKeysField_NoCache(st, b, v) ==
    IF Truthy(v) /\ Truthy(Trim(v))
    THEN [storage |-> setItem(st.storage, b, Trim(v)), keys |-> st.keys]
    ELSE [storage |-> removeItem(st.storage, b), keys |-> st.keys]

setApiKeysField_KeepsItem(st, b, v) ==
    IF Truthy(v) /\ Truthy(Trim(v))
    THEN [storage |-> setItem(st.storage, b, Trim(v)),
          keys |-> [st.keys EXCEPT ![b] = Trim(v)]]
    ELSE [storage |-> st.storage,
          keys |-> [st.keys EXCEPT ![b] = Undefined]]

setApiKeysField_Untrimmed(st, b, v) ==
    IF Truthy(v) /\ Truthy(Trim(v))
    THEN [storage |-> setItem(st.storage, b, v),
          keys |-> [st.keys EXCEPT ![b] = v]]
    ELSE [storage |-> removeItem(st.storage, b),
          keys |-> [st.keys EXCEPT ![b] = Undefined]]

setApiKeysField(st, b, v) ==
    IF Truthy(v) /\ Truthy(Trim(v))
    THEN [storage |-> setItem(st.storage, b, Trim(v)),
          keys |-> [st.keys EXCEPT ![b] = Trim(v)]]
    ELSE [storage |-> removeItem(st.storage, b),
          keys |-> [st.keys EXCEPT ![b] = Undefined]]

\* setApiKeys: the cache and the storage it leaves, and whether it logged
\* (_NoGuard: the cache is assigned even without window.localStorage)
setApiKeys_NoGuard(rk, ls, keys) ==
    LET g == setApiKeysField([keys |-> rk, storage |-> ls], "gemini", keys["gemini"])
        q == setApiKeysField(g, "groq", keys["groq"])
        o == setApiKeysField(q, "openai", keys["openai"])
    IN  [keys |-> o.keys,
         storage |-> IF hasStorage THEN o.storage ELSE ls,
         logged |-> ~hasStorage]

setApiKeys(rk, ls, keys) ==
    IF ~hasStorage
    THEN [keys |-> rk, storage |-> ls, logged |-> TRUE]
    ELSE LET g == setApiKeysField([keys |-> rk, storage |-> ls], "gemini", keys["gemini"])
             q == setApiKeysField(g, "groq", keys["groq"])
             o == setApiKeysField(q, "openai", keys["openai"])
         IN  [keys |-> o.keys, storage |-> o.storage, logged |-> FALSE]

\* { ...runtimeKeys }: a new object with the same fields (_SameObject: the
\* cache itself is handed out)
Spread_SameObject(rk) == [obj |-> rk, alias |-> TRUE]

Spread(rk) == [obj |-> rk, alias |-> FALSE]

\* getApiKeys: the cache it leaves and the object it returns
getApiKeys(rk, ls) ==
    LET rk2 == Reinitialized(rk, ls)
    IN  [keys |-> rk2, value |-> Spread(rk2)]

\* getApiKey: the cache it leaves and the value it returns (_EnvFirst: the
\* operands of || swapped; _Stale: the entry read before the reinitialize
\* step)
getApiKey_Stale(rk, ls, provider) ==
    LET rk2 == Reinitialized(rk, ls)
    IN  [keys |-> rk2, value |-> Or(rk[provider], env[provider])]

getApiKey_EnvFirst(rk, ls, provider) ==
    LET rk2 == Reinitialized(rk, ls)
    IN  [keys |-> rk2, value |-> Or(env[provider], rk2[provider])]

getApiKey(rk, ls, provider) ==
    LET rk2 == Reinitialized(rk, ls)
    IN  [keys |-> rk2, value |-> Or(rk2[provider], env[provider])]

\* getAvailableProvider: the cache it leaves and its result ("null" and
\* Null for a null result) (_GroqFirst: groq tried before gemini)
getAvailableProvider_GroqFirst(rk, ls) ==
    LET q == getApiKey(rk, ls, "groq")
        g == getApiKey(q.keys, ls, "gemini")
        o == getApiKey(g.keys, ls, "openai")
    IN  IF Truthy(q.value)
        THEN [keys |-> q.keys, provider |-> "groq", apiKey |-> q.value]
        ELSE IF Truthy(g.value)
        THEN [keys |-> g.keys, provider |-> "gemini", apiKey |-> g.value]
        ELSE IF Truthy(o.value)
        THEN [keys |-> o.keys, provider |-> "openai", apiKey |-> o.value]
        ELSE [keys |-> o.keys, provider |-> "null", apiKey |-> Null]

getAvailableProvider(rk, ls) ==
    LET g == getApiKey(rk, ls, "gemini")
        q == getApiKey(g.keys, ls, "groq")
        o == getApiKey(q.keys, ls, "openai")
    IN  IF Truthy(g.value)
        THEN [keys |-> g.keys, provider |-> "gemini", apiKey |-> g.value]
        ELSE IF Truthy(q.value)
        THEN [keys |-> q.keys, provider |-> "groq", apiKey |-> q.value]
        ELSE IF Truthy(o.value)
        THEN [keys |-> o.keys, provider |-> "openai", apiKey |-> o.value]
        ELSE [keys |-> o.keys, provider |-> "null", apiKey |-> Null]

\* getActiveProvider: the cache it leaves and the provider it reports
getActiveProvider(rk, ls) ==
    LET config == getAvailableProvider(rk, ls)
    IN  [keys |-> config.keys, value |-> config.provider]

\* ---- llm-service.ts: generateContent ----------------------------------

\* messages are sequences of pieces of text: the literal parts of a
\* template string and the values it interpolates
NoKeyMessage ==
    << "No API key configured. Please configure at least one API key in settings." >>

IdleCall == [state |-> "idle", provider |-> "null", apiKey |-> Null, message |-> << >>]

\* the server each backend call talks to
EndpointOf_Swapped(provider) ==
    IF provider = "gemini" THEN "generativelanguage.googleapis.com"
    ELSE IF provider = "groq" THEN "api.openai.com"
    ELSE "api.groq.com"

EndpointOf(provider) ==
    IF provider = "gemini" THEN "generativelanguage.googleapis.com"
    ELSE IF provider = "groq" THEN "api.groq.com"
    ELSE "api.openai.com"

\* the switch of generateContent: the request the call function of the
\* provider issues with the key it is handed (_GeminiPath: every provider
\* takes the first case)
Dispatch_GeminiPath(provider, apiKey) ==
    [provider |-> "gemini", endpoint |-> EndpointOf("gemini"), apiKey |-> apiKey]

Dispatch(provider, apiKey) ==
    [provider |-> provider, endpoint |-> EndpointOf(provider), apiKey |-> apiKey]

\* generateContent up to its first await: the cache it leaves, the state of
\* the invocation and the requests it has issued (_AlwaysCalls: no check of
\* the selection)
generateContent_AlwaysCalls(rk, ls) ==
    LET config == getAvailableProvider(rk, ls)
    IN  [keys |-> config.keys,
         call |-> [state |-> "pending", provider |-> config.provider,
                   apiKey |-> config.apiKey, message |-> << >>],
         sent |-> << Dispatch(config.provider, config.apiKey) >>]

generateContent(rk, ls) ==
    LET config == getAvailableProvider(rk, ls)
    IN  IF config.provider = "null"
        THEN [keys |-> config.keys,
              call |-> [state |-> "rejected", provider |-> "null",
                        apiKey |-> Null, message |-> NoKeyMessage],
              sent |-> << >>]
        ELSE [keys |-> config.keys,
              call |-> [state |-> "pending", provider |-> config.provider,
                        apiKey |-> config.apiKey, message |-> << >>],
              sent |-> << Dispatch(config.provider, config.apiKey) >>]

\* the name callGroq and callOpenAI put in the error of a failed response
ApiName(provider) ==
    IF provider = "groq" THEN "Groq" ELSE IF provider = "openai" THEN "OpenAI" ELSE "Gemini"

\* What the transport can answer one request with.
\*   ok         a success response whose envelope carries the content
\*   nocontent  a success response whose envelope has no content
\*   nochoices  a success response whose envelope has no choices
\*   http       a non-success response; errorMessage is error.message of
\*              its body, Undefined when the body is not parseable, and
\*              sdkMessage is the message of the error the GoogleGenAI
\*              client throws for it, which may or may not quote the status
\*   network    fetch rejects
Outcomes ==
    { [kind |-> "ok", status |-> 200, statusText |-> <<"OK">>,
       content |-> <<"{}">>, errorMessage |-> Undefined, sdkMessage |-> Undefined],
      [kind |-> "nocontent", status |-> 200, statusText |-> <<"OK">>,
       content |-> Undefined, errorMessage |-> Undefined, sdkMessage |-> Undefined],
      [kind |-> "nochoices", status |-> 200, statusText |-> <<"OK">>,
       content |-> Undefined, errorMessage |-> Undefined, sdkMessage |-> Undefined],
      [kind |-> "http", status |-> 401, statusText |-> <<"Unauthorized">>,
       content |-> Undefined, errorMessage |-> <<"Invalid API Key">>,
       sdkMessage |-> <<"got status: ", "401", ". ", "Invalid API Key">>],
      [kind |-> "http", status |-> 401, statusText |-> <<"Unauthorized">>,
       content |-> Undefined, errorMessage |-> <<"Invalid API Key">>,
       sdkMessage |-> <<"API key not valid. Please pass a valid API key.">>],
      [kind |-> "http", status |-> 401, statusText |-> <<"Unauthorized">>,
       content |-> Undefined, errorMessage |-> Undefined,
       sdkMessage |-> <<"got status: ", "401", ". ">>],
      [kind |-> "network", status |-> 0, statusText |-> << >>,
       content |-> Undefined, errorMessage |-> Undefined, sdkMessage |-> Undefined] }

FetchError == << "Failed to fetch" >>

NoChoicesError == << "Cannot read properties of undefined (reading '0')" >>

\* callGemini: the client's error is passed on, the text of the response is
\* returned as it is
callGemini(outcome) ==
    IF outcome.kind = "network" THEN [threw |-> TRUE, isError |-> TRUE, value |-> FetchError]
    ELSE IF outcome.kind = "http"
    THEN [threw |-> TRUE, isError |-> TRUE, value |-> outcome.sdkMessage]
    ELSE [threw |-> FALSE, isError |-> FALSE, value |-> outcome.content]

\* callGroq and callOpenAI, which differ in the name they report
\* (_NoStatus: the error of a failed response leaves the status out)
callChat_NoStatus(apiName, outcome) ==
    IF outcome.kind = "network" THEN [threw |-> TRUE, isError |-> TRUE, value |-> FetchError]
    ELSE IF outcome.kind = "http"
    THEN [threw |-> TRUE, isError |-> TRUE,
          value |-> <<apiName, " API error: ">>
                        \o Or(outcome.errorMessage, outcome.statusText)]
    ELSE IF outcome.kind = "nochoices"
    THEN [threw |-> TRUE, isError |-> TRUE, value |-> NoChoicesError]
    ELSE [threw |-> FALSE, isError |-> FALSE, value |-> outcome.content]

callChat(apiName, outcome) ==
    IF outcome.kind = "network" THEN [threw |-> TRUE, isError |-> TRUE, value |-> FetchError]
    ELSE IF outcome.kind = "http"
    THEN [threw |-> TRUE, isError |-> TRUE,
          value |-> <<apiName, " API error (", ToString(outcome.status), "): ">>
                        \o Or(outcome.errorMessage, outcome.statusText)]
    ELSE IF outcome.kind = "nochoices"
    THEN [threw |-> TRUE, isError |-> TRUE, value |-> NoChoicesError]
    ELSE [threw |-> FALSE, isError |-> FALSE, value |-> outcome.content]

\* the call function the switch of generateContent picks, completed
CallResult(provider, outcome) ==
    IF provider = "gemini" THEN callGemini(outcome)
    ELSE callChat(ApiName(provider), outcome)

\* generateContent after its await: the settled invocation
\* (_Unwrapped: no catch; _FallsBack: a failure moves on to the next
\* provider instead of rejecting)
Settled_Unwrapped(call, outcome) ==
    LET r == CallResult(call.provider, outcome)
    IN  IF r.threw
        THEN [call EXCEPT !.state = "rejected", !.message = r.value]
        ELSE [call EXCEPT !.state = "resolved", !.message = r.value]

Settled_FallsBack(call, outcome) ==
    LET r == CallResult(call.provider, outcome)
    IN  IF r.threw
        THEN IF call.provider = "openai"
             THEN [call EXCEPT !.state = "rejected",
                               !.message = <<call.provider, " API error: ">> \o r.value]
             ELSE [call EXCEPT !.provider = IF call.provider = "gemini"
                                            THEN "groq" ELSE "openai"]
        ELSE [call EXCEPT !.state = "resolved", !.message = r.value]

Settled(call, outcome) ==
    LET r == CallResult(call.provider, outcome)
    IN  IF r.threw
        THEN [call EXCEPT !.state = "rejected",
                          !.message = <<call.provider, " API error: ">>
                                          \o (IF r.isError THEN r.value
                                              ELSE <<"Unknown error">>)]
        ELSE [call EXCEPT !.state = "resolved", !.message = r.value]

\* ---- App.tsx: safeJsonParse --------------------------------------------

\* Texts are sequences of units: "{" and "}" are the brace characters, "1"
\* is a digit, "K" stands for a member name with its colon ("k":) and "x"
\* for a character of prose, which no JSON text has outside a string.
Units == {"{", "}", "K", "1", "x"}

\* longest text given to safeJsonParse
MaxText == 6

\* The answers of a backend to the prompts of App use three units more:
\* "P", "R" and "S" stand for the member names "projectName", "results"
\* and "similarTools" with their colon, and "A" for an array of four items.
MemberName(unit) ==
    IF unit = "K" THEN "k"
    ELSE IF unit = "P" THEN "projectName"
    ELSE IF unit = "R" THEN "results"
    ELSE "similarTools"

Texts == UNION { [1..n -> Units] : n \in 0..MaxText }

\* String.prototype.indexOf and lastIndexOf for one character: positions
\* count from 0, -1 when the character does not occur (_Zero: the start of
\* the text whenever the character occurs; _First: the first occurrence)
indexOf_Zero(text, ch) ==
    IF \E i \in 1..Len(text) : text[i] = ch THEN 0 ELSE -1

indexOf(text, ch) ==
    IF \E i \in 1..Len(text) : text[i] = ch
    THEN (CHOOSE i \in 1..Len(text) :
              text[i] = ch /\ \A j \in 1..(i - 1) : text[j] # ch) - 1
    ELSE -1

lastIndexOf_First(text, ch) == indexOf(text, ch)

lastIndexOf(text, ch) ==
    IF \E i \in 1..Len(text) : text[i] = ch
    THEN (CHOOSE i \in 1..Len(text) :
              text[i] = ch /\ \A j \in (i + 1)..Len(text) : text[j] # ch) - 1
    ELSE -1

\* String.prototype.substring: both positions are clamped to the text and
\* exchanged when the first is the larger
substring(text, start, end) ==
    LET Clamp(n) == IF n < 0 THEN 0 ELSE IF n > Len(text) THEN Len(text) ELSE n
        a == Clamp(start)
        b == Clamp(end)
    IN  IF a <= b THEN SubSeq(text, a + 1, b) ELSE SubSeq(text, b + 1, a)

\* JSON.parse reads one value from position i: a number (a run of digits)
\* an array or an object with no member or one member.  It gives the
\* position after the value and the value, <<"number", digits>>,
\* <<"array", items>> or <<"object", members>>.
NoValue == [ok |-> FALSE, next |-> 0, value |-> Undefined]

RECURSIVE Digits(_, _)
Digits(s, i) == IF i <= Len(s) /\ s[i] = "1" THEN 1 + Digits(s, i + 1) ELSE 0

RECURSIVE ParseValue(_, _)
ParseValue(s, i) ==
    IF i > Len(s) THEN NoValue
    ELSE IF s[i] = "1"
    THEN [ok |-> TRUE, next |-> i + Digits(s, i), value |-> <<"number", Digits(s, i)>>]
    ELSE IF s[i] = "A"
    THEN [ok |-> TRUE, next |-> i + 1, value |-> <<"array", 4>>]
    ELSE IF s[i] = "{"
    THEN IF i + 1 > Len(s) THEN NoValue
         ELSE IF s[i + 1] = "}"
         THEN [ok |-> TRUE, next |-> i + 2, value |-> <<"object", << >> >>]
         ELSE IF s[i + 1] \in {"K", "P", "R", "S"}
         THEN LET v == ParseValue(s, i + 2)
              IN  IF v.ok /\ v.next <= Len(s) /\ s[v.next] = "}"
                  THEN [ok |-> TRUE, next |-> v.next + 1,
                        value |-> <<"object", << <<MemberName(s[i + 1]), v.value>> >> >>]
                  ELSE NoValue
         ELSE NoValue
    ELSE NoValue

\* JSON.parse(s): the value, or a SyntaxError thrown when s is not one
\* value from its first character to its last
JSONparse(s) ==
    LET v == ParseValue(s, 1)
    IN  IF v.ok /\ v.next = Len(s) + 1
        THEN [threw |-> FALSE, value |-> v.value]
        ELSE [threw |-> TRUE, value |-> Undefined]

\* safeJsonParse(text): what it gives back, whether an exception leaves
\* it, and the string it handed to JSON.parse (_NoCatch: without the
\* try/catch around JSON.parse)
safeJsonParse_NoCatch(text) ==
    LET jsonStart == indexOf(text, "{")
        jsonEnd == lastIndexOf(text, "}")
        jsonString == IF jsonStart = -1 \/ jsonEnd = -1 THEN text
                      ELSE substring(text, jsonStart, jsonEnd + 1)
        parsed == JSONparse(jsonString)
    IN  [threw |-> parsed.threw, value |-> parsed.value, jsonString |-> jsonString]

safeJsonParse(text) ==
    LET jsonStart == indexOf(text, "{")
        jsonEnd == lastIndexOf(text, "}")
        jsonString == IF jsonStart = -1 \/ jsonEnd = -1 THEN text
                      ELSE substring(text, jsonStart, jsonEnd + 1)
        parsed == JSONparse(jsonString)
    IN  [threw |-> FALSE,
         value |-> IF parsed.threw THEN Null ELSE parsed.value,
         jsonString |-> jsonString]

\* ---- part_002 (ApiKeyConfig) -----------------------------------------

\* the argument handleSave builds from the three fields
SavedKeys(fields) == [b \in Backends |-> Or(Trim(fields[b]), Undefined)]

\* ---- App.tsx and Chat.tsx: the handlers ---------------------------------

\* The answers of a backend to the prompts of App: search results, an
\* analysis that names the project, an analysis with similar tools, and a
\* text that is not JSON.
AppTexts ==
    { <<"{", "R", "A", "}">>, <<"{", "P", "1", "}">>, <<"{", "S", "A", "}">>,
      <<"x">> }

\* what the transport can answer a request of App with
AppOutcomes ==
    { [kind |-> "ok", status |-> 200, statusText |-> <<"OK">>,
       content |-> t, errorMessage |-> Undefined, sdkMessage |-> Undefined] :
          t \in AppTexts }
    \cup
    { [kind |-> "nocontent", status |-> 200, statusText |-> <<"OK">>,
       content |-> Undefined, errorMessage |-> Undefined, sdkMessage |-> Undefined],
      [kind |-> "http", status |-> 401, statusText |-> <<"Unauthorized">>,
       content |-> Undefined, errorMessage |-> <<"Incorrect API key provided">>,
       sdkMessage |-> <<"API key not valid. Please pass a valid API key.">>],
      [kind |-> "http", status |-> 401, statusText |-> <<"Unauthorized">>,
       content |-> Undefined, errorMessage |-> Undefined,
       sdkMessage |-> <<"got status: ", "401", ". ">>],
      [kind |-> "http", status |-> 429, statusText |-> <<"Too Many Requests">>,
       content |-> Undefined, errorMessage |-> <<"You exceeded your current quota">>,
       sdkMessage |-> <<"got status: ", "429", ". ", "You exceeded your current quota">>],
      [kind |-> "network", status |-> 0, statusText |-> << >>,
       content |-> Undefined, errorMessage |-> Undefined, sdkMessage |-> Undefined] }

\* The texts the catch blocks look for with includes(), and those each
\* piece of a message holds.  The search is for the exact characters:
\* "Invalid API Key" and "Invalid GitHub repository URL." hold none.
Marks(piece) ==
    IF piece = "No API key configured. Please configure at least one API key in settings."
    THEN {"API key", "No API key"}
    ELSE IF piece \in {"Incorrect API key provided",
                       "API key not valid. Please pass a valid API key."}
    THEN {"API key"}
    ELSE IF piece \in {"401", "403", "404"} THEN {piece}
    ELSE IF piece = "You exceeded your current quota" THEN {"quota"}
    ELSE {}

\* message.includes(marker)
includes(message, marker) == \E i \in 1..Len(message) : marker \in Marks(message[i])

\* the texts the handlers show (the emoji of the source are left out)
SearchFailedText == << "Failed to search for repositories. Please try another query." >>

NoValidKeyHint ==
    << "No valid API key found. Please click Settings to add your API key." >>

InvalidKeyHint ==
    << "Invalid or expired API key. Please click Settings to update your API key." >>

SearchQuotaHint == << "API quota exceeded. Please try again later." >>

AnalysisQuotaHint ==
    << "API quota exceeded. Please try again later or use a different API key." >>

LoadMoreFailedText == << "Failed to load more similar tools." >>

ChatFailedText == << "Sorry, I encountered an error. Please try again." >>

NoKeyAtLoadText ==
    << "No API key configured. Please add at least one API key (GEMINI_API_KEY, GROQ_API_KEY, or OPENAI_API_KEY) to your .env.local file." >>

InvalidUrlError == << "Invalid GitHub repository URL." >>

NotFoundError ==
    << "Repository not found on GitHub. Check the URL or if it's a private repository." >>

InvalidFormatError ==
    << "The AI returned an invalid analysis format. Please try again." >>

NoIndexOfError == << "Cannot read properties of undefined (reading 'indexOf')" >>

\* the catch of handleSearchSubmit: the text shown for the message of the
\* error caught (_HintsSwapped: the test for the status comes first)
searchErrorMessage_HintsSwapped(message) ==
    IF includes(message, "403") \/ includes(message, "401")
           \/ includes(message, "INVALID") \/ includes(message, "expired")
    THEN InvalidKeyHint
    ELSE IF includes(message, "API key") \/ includes(message, "No API key")
    THEN NoValidKeyHint
    ELSE IF includes(message, "quota") THEN SearchQuotaHint
    ELSE SearchFailedText

searchErrorMessage_Verbatim(message) == message

searchErrorMessage(message) ==
    IF includes(message, "API key") \/ includes(message, "No API key")
    THEN NoValidKeyHint
    ELSE IF includes(message, "403") \/ includes(message, "401")
                \/ includes(message, "INVALID") \/ includes(message, "expired")
    THEN InvalidKeyHint
    ELSE IF includes(message, "quota") THEN SearchQuotaHint
    ELSE SearchFailedText

\* the catch of handleAnalyzeRepo
analysisErrorMessage(message) ==
    IF includes(message, "API key") \/ includes(message, "No API key")
    THEN NoValidKeyHint
    ELSE IF includes(message, "403") \/ includes(message, "401")
                \/ includes(message, "INVALID") \/ includes(message, "expired")
    THEN InvalidKeyHint
    ELSE IF includes(message, "quota") THEN AnalysisQuotaHint
    ELSE IF includes(message, "404") THEN message
    ELSE <<"Analysis failed: ">> \o message

\* the fields of analysisData that the model follows
DataFields == {"projectName", "repoUrl", "stats", "similarTools", "results"}

NoData == [f \in DataFields |-> Undefined]

\* what the repository-hosting API answers the request of an analysis with
GithubOutcomes ==
    { [kind |-> "ok", status |-> 200], [kind |-> "http", status |-> 404],
      [kind |-> "http", status |-> 403], [kind |-> "network", status |-> 0] }

\* what handleAnalyzeRepo sets from the answer of the hosting API
HostingData ==
    [NoData EXCEPT !["projectName"] = <<"owner/repo">>,
                   !["repoUrl"] = <<"https://github.com/owner/repo">>,
                   !["stats"] = <<"stats">>]

\* the error handleAnalyzeRepo throws for a failed answer of the hosting
\* API; a rejection of fetch is thrown as it is
githubError(g) ==
    IF g.kind = "network" THEN FetchError
    ELSE IF g.status = 404 THEN NotFoundError
    ELSE <<"Failed to fetch data from GitHub API (Status: ", ToString(g.status), ").">>

\* the addresses a search result can carry, as the pieces split('/') gives
\* after the two replace() calls
Urls == { <<"owner", "repo">>, <<"owner">> }

\* value.name for a parsed value: undefined unless the value is an object
\* with that member
Member(value, name) ==
    IF value # Null /\ value[1] = "object"
          /\ \E m \in 1..Len(value[2]) : value[2][m][1] = name
    THEN value[2][CHOOSE m \in 1..Len(value[2]) : value[2][m][1] = name][2]
    ELSE Undefined

\* {...prev, ...value}: the members of an object replace the fields of
\* the same name
Spreads(prev, value) ==
    [f \in DataFields |->
        IF Member(value, f) # Undefined THEN Member(value, f) ELSE prev[f]]

\* safeJsonParse(responseText) in a handler: responseText is undefined
\* when the answer had no content, and text.indexOf then throws
Parsed(responseText) ==
    IF responseText = Undefined
    THEN [threw |-> TRUE, value |-> Undefined, message |-> NoIndexOfError]
    ELSE [threw |-> FALSE, value |-> safeJsonParse(responseText).value,
          message |-> << >>]

\* Chat: the greeting, a Chat that is not rendered, one just mounted
Greeting == [role |-> "assistant", content |-> <<"Hi!">>]

NoChat == [mounted |-> FALSE, messages |-> << >>, isLoading |-> FALSE]

NewChat == [mounted |-> TRUE, messages |-> <<Greeting>>, isLoading |-> FALSE]

\* accepted submissions followed in one Chat
MaxSends == 1

\* the pages of the footer the model visits
Pages == { "privacy" }

\* what the user types into the search form and into the chat
Queries == { <<"q">> }

ChatInputs == { <<" ">>, <<"q", " ">> }

\* App after its first render and its effect that checks the provider
InitialUi(provider) ==
    [view |-> "landing", searchResults |-> Null,
     error |-> IF provider = "null" THEN NoKeyAtLoadText ELSE Null,
     isLoading |-> [searching |-> FALSE, analyzing |-> FALSE],
     analyzingUrl |-> Null, analysisData |-> NoData, currentQuery |-> << >>,
     isLoadingMore |-> FALSE, hasMoreSimilarTools |-> TRUE,
     searchClosure |-> [searching |-> FALSE, analyzing |-> FALSE],
     analysisStage |-> "idle", chat |-> NoChat, orphanSend |-> FALSE]

\* App renders Chat only while analysisData.projectName is set: a Chat that
\* leaves the screen loses its state, and a send it had in flight settles
\* into nothing
Rendered(u) ==
    IF Truthy(u.analysisData["projectName"])
    THEN IF u.chat.mounted THEN u ELSE [u EXCEPT !.chat = NewChat]
    ELSE [u EXCEPT !.chat = NoChat,
                   !.orphanSend = u.orphanSend \/ u.chat.isLoading]

\* handleSearchSubmit up to its await; searchClosure is the isLoading of
\* the render the handler was made in
SearchStarted(u, query) ==
    [u EXCEPT !.analysisData = NoData, !.searchResults = Null, !.error = Null,
              !.isLoading = [u.isLoading EXCEPT !.searching = TRUE],
              !.currentQuery = query, !.searchClosure = u.isLoading]

\* handleSearchSubmit after its await: the rest of the try, or the catch,
\* and the finally
SearchCaught(call) ==
    IF call.state = "rejected" THEN call.message
    ELSE IF Parsed(call.message).threw THEN Parsed(call.message).message
    ELSE Null

SearchSettled(u, call) ==
    LET parsed == Parsed(call.message)
        done == [u EXCEPT !.isLoading = [u.searchClosure EXCEPT !.searching = FALSE]]
    IN  IF SearchCaught(call) = Null
        THEN [done EXCEPT !.searchResults =
                              IF Truthy(Member(parsed.value, "results"))
                              THEN Member(parsed.value, "results")
                              ELSE <<"array", 0>>,
                          !.view = "results"]
        ELSE [done EXCEPT !.error = searchErrorMessage(SearchCaught(call))]

\* handleAnalyzeRepo up to the test of the address
AnalysisStarted(u, url) ==
    [u EXCEPT !.view = "analysis",
              !.isLoading = [searching |-> FALSE, analyzing |-> TRUE],
              !.analyzingUrl = url, !.error = Null, !.analysisData = NoData,
              !.hasMoreSimilarTools = TRUE]

\* the catch and the finally of handleAnalyzeRepo
\* (_FlagKept: the finally leaves the analyzing flag as it is)
AnalysisFailed_FlagKept(u, thrown) ==
    [u EXCEPT !.error = analysisErrorMessage(thrown),
              !.analyzingUrl = Null, !.analysisStage = "idle"]

AnalysisFailed(u, thrown) ==
    [u EXCEPT !.error = analysisErrorMessage(thrown),
              !.isLoading = [searching |-> FALSE, analyzing |-> FALSE],
              !.analyzingUrl = Null, !.analysisStage = "idle"]

\* handleAnalyzeRepo after generateContent has settled
AnalysisCaught(call) ==
    IF call.state = "rejected" THEN call.message
    ELSE IF Parsed(call.message).threw THEN Parsed(call.message).message
    ELSE IF Parsed(call.message).value = Null THEN InvalidFormatError
    ELSE Null

AnalysisSettled(u, call) ==
    IF AnalysisCaught(call) # Null THEN AnalysisFailed(u, AnalysisCaught(call))
        ELSE [u EXCEPT !.analysisData =
                           Spreads(u.analysisData, Parsed(call.message).value),
                       !.isLoading = [searching |-> FALSE, analyzing |-> FALSE],
                       !.analyzingUrl = Null, !.analysisStage = "idle"]

\* handleLoadMoreSimilarTools after generateContent has settled: no answer
\* of the model has a member "tools", so there are no new tools
LoadMoreSettled(u, call) ==
    IF SearchCaught(call) # Null
    THEN [u EXCEPT !.error = LoadMoreFailedText, !.isLoadingMore = FALSE]
    ELSE [u EXCEPT !.hasMoreSimilarTools = FALSE, !.isLoadingMore = FALSE]

\* handleChatMessage after generateContent has resolved: an answer that is
\* JSON with a member answer, response or content gives that member
handleChatMessage(response) ==
    LET parsed == JSONparse(response)
    IN  IF ~parsed.threw /\ Truthy(Member(parsed.value, "answer"))
        THEN Member(parsed.value, "answer")
        ELSE IF ~parsed.threw /\ Truthy(Member(parsed.value, "response"))
        THEN Member(parsed.value, "response")
        ELSE IF ~parsed.threw /\ Truthy(Member(parsed.value, "content"))
        THEN Member(parsed.value, "content")
        ELSE response

\* Chat.handleSubmit after onSendMessage has settled
\* (_KeepsLoading: no finally)
ChatSettled_KeepsLoading(chat, call) ==
    [chat EXCEPT !.messages = Append(@,
              [role |-> "assistant",
               content |-> IF call.state = "resolved"
                           THEN handleChatMessage(call.message)
                           ELSE ChatFailedText])]

ChatSettled(chat, call) ==
    [chat EXCEPT !.messages = Append(@,
              [role |-> "assistant",
               content |-> IF call.state = "resolved"
                           THEN handleChatMessage(call.message)
                           ELSE ChatFailedText]),
                 !.isLoading = FALSE]

\* ---- state machine ----------------------------------------------------

\* The module has just been loaded.  Persistent storage holds what earlier
\* runs of the application saved, so trimmed non-empty strings only.
Init ==
    /\ hasStorage \in BOOLEAN
    /\ env \in [Backends -> EnvValues]
    /\ localStorage \in [Backends -> StoredValues \cup {Null}]
    /\ (~hasStorage => localStorage = NoItems)
    /\ runtimeKeys = initializeKeys(NoKeys, localStorage)
    /\ calls = [c \in Callers |-> IdleCall]
    /\ requests = [c \in Callers |-> << >>]
    /\ ui = InitialUi(getActiveProvider(runtimeKeys, localStorage).value)
    /\ last = [op |-> "load"]

\* setApiKeys(keys)
SetApiKeys(keys) ==
    LET r == setApiKeys(runtimeKeys, localStorage, keys)
    IN  /\ runtimeKeys' = r.keys
        /\ localStorage' = r.storage
        /\ last' = [op |-> "setApiKeys", keys |-> keys, logged |-> r.logged]
        /\ UNCHANGED <<hasStorage, env, calls, requests, ui>>

\* getApiKeys()
GetApiKeys ==
    LET r == getApiKeys(runtimeKeys, localStorage)
    IN  /\ runtimeKeys' = r.keys
        /\ last' = [op |-> "getApiKeys", value |-> r.value]
        /\ UNCHANGED <<hasStorage, env, localStorage, calls, requests, ui>>

\* getApiKey(provider)
GetApiKey(provider) ==
    LET r == getApiKey(runtimeKeys, localStorage, provider)
    IN  /\ runtimeKeys' = r.keys
        /\ last' = [op |-> "getApiKey", provider |-> provider, value |-> r.value]
        /\ UNCHANGED <<hasStorage, env, localStorage, calls, requests, ui>>

\* getActiveProvider()
GetActiveProvider ==
    LET r == getActiveProvider(runtimeKeys, localStorage)
    IN  /\ runtimeKeys' = r.keys
        /\ last' = [op |-> "getActiveProvider", value |-> r.value]
        /\ UNCHANGED <<hasStorage, env, localStorage, calls, requests, ui>>

\* another tab of the application saves its keys: the storage is shared
OtherTabSetApiKeys ==
    /\ hasStorage
    /\ \E ls \in [Backends -> StoredValues \cup {Null}] :
           /\ ls # localStorage
           /\ localStorage' = ls
    /\ last' = [op |-> "storage"]
    /\ UNCHANGED <<hasStorage, env, runtimeKeys, calls, requests, ui>>

\* the caller assigns a field of the object getApiKeys() gave it, before
\* its next call into the module; an assignment through an alias of the
\* cache is an assignment to the cache
MutateReturned(b, v) ==
    /\ last.op \in {"getApiKeys", "mutate"}
    /\ last.value.obj[b] # v
    /\ last' = [op |-> "mutate", value |-> [last.value EXCEPT !.obj[b] = v]]
    /\ runtimeKeys' = IF last.value.alias THEN [runtimeKeys EXCEPT ![b] = v]
                      ELSE runtimeKeys
    /\ UNCHANGED <<hasStorage, env, localStorage, calls, requests, ui>>

\* ApiKeyConfig.handleSave with the three fields as typed: nothing is
\* saved when all are blank
HandleSave(fields) ==
    LET keys == SavedKeys(fields)
    IN  /\ \E b \in Backends : Truthy(keys[b])
        /\ SetApiKeys(keys)

\* generateContent(prompt, schema) is called by a caller that has no
\* invocation in flight
GenerateContent(c) ==
    LET r == generateContent(runtimeKeys, localStorage)
    IN  /\ calls[c].state # "pending"
        /\ runtimeKeys' = r.keys
        /\ calls' = [calls EXCEPT ![c] = r.call]
        /\ requests' = [requests EXCEPT ![c] = r.sent]
        /\ last' = [op |-> "generateContent", call |-> c]
        /\ UNCHANGED <<hasStorage, env, localStorage, ui>>

\* the backend answers the request of a pending invocation
\* (_Reselects: the invocation looks the provider up again when the answer
\* comes)
BackendAnswers_Reselects(c, outcome) ==
    LET now == getAvailableProvider(runtimeKeys, localStorage)
        call == IF now.provider = "null" THEN calls[c]
                ELSE [calls[c] EXCEPT !.provider = now.provider,
                                      !.apiKey = now.apiKey]
    IN  /\ calls[c].state = "pending"
        /\ calls' = [calls EXCEPT ![c] = Settled(call, outcome)]
        /\ last' = [op |-> "answer", call |-> c, outcome |-> outcome]
        /\ UNCHANGED <<hasStorage, env, localStorage, runtimeKeys, requests, ui>>

BackendAnswers(c, outcome) ==
    /\ calls[c].state = "pending"
    /\ calls' = [calls EXCEPT ![c] = Settled(calls[c], outcome)]
    /\ last' = [op |-> "answer", call |-> c, outcome |-> outcome]
    /\ UNCHANGED <<hasStorage, env, localStorage, runtimeKeys, requests, ui>>

\* the operations of the credential store, called with any argument
Next ==
    \/ \E keys \in [Backends -> KeyInputs] : SetApiKeys(keys)
    \/ GetApiKeys
    \/ \E p \in Backends : GetApiKey(p)
    \/ GetActiveProvider
    \/ OtherTabSetApiKeys

Spec == Init /\ [][Next]_vars

\* a caller that reads the credential set and writes into what it got
NextRead ==
    \/ \E fields \in [Backends -> FieldInputs] : HandleSave(fields)
    \/ GetApiKeys
    \/ \E b \in Backends, v \in Scribbles : MutateReturned(b, v)
    \/ \E p \in Backends : GetApiKey(p)
    \/ GetActiveProvider
    \/ OtherTabSetApiKeys

SpecRead == Init /\ [][NextRead]_vars

\* the application: the settings dialog and one caller of generateContent
NextGen ==
    \/ \E fields \in [Backends -> FieldInputs] : HandleSave(fields)
    \/ OtherTabSetApiKeys
    \/ GetActiveProvider
    \/ GenerateContent("search")
    \/ \E outcome \in Outcomes : BackendAnswers("search", outcome)

SpecGen == Init /\ [][NextGen]_vars

\* two callers of generateContent, the search and the chat, with the
\* settings dialog saving between their steps
NextConc ==
    \/ \E fields \in [Backends -> FieldInputs] : HandleSave(fields)
    \/ \E c \in {"search", "chat"} : GenerateContent(c)
    \/ \E c \in {"search", "chat"}, outcome \in Outcomes : BackendAnswers(c, outcome)

SpecConc == Init /\ [][NextConc]_vars

\* a handler of App has the text generateContent resolved with; the
\* credential store plays no part
InitParse ==
    /\ hasStorage = FALSE
    /\ env = [b \in Backends |-> Undefined]
    /\ localStorage = NoItems
    /\ runtimeKeys = NoKeys
    /\ calls = [c \in Callers |-> IdleCall]
    /\ requests = [c \in Callers |-> << >>]
    /\ ui = InitialUi("null")
    /\ \E text \in Texts : last = [op |-> "response", text |-> text]

\* the handler calls safeJsonParse(responseText)
SafeJsonParse ==
    /\ last.op = "response"
    /\ last' = [op |-> "safeJsonParse", text |-> last.text,
                result |-> safeJsonParse(last.text)]
    /\ UNCHANGED <<hasStorage, env, localStorage, runtimeKeys, calls, requests, ui>>

NextParse == SafeJsonParse

SpecParse == InitParse /\ [][NextParse]_vars

\* ---- the handlers of App and Chat as steps ----------------------------

\* the record a step leaves in last when the continuation of a handler has
\* run: the settled generateContent invocation (IdleCall when the handler
\* failed before it called) and the message of the error its catch got
SettledStep(handler, call, caught) ==
    [op |-> "settles", handler |-> handler, call |-> call, caught |-> caught]

\* a slot of calls and requests is free again once the handler has the result
Freed(slots, c, idle) == [slots EXCEPT ![c] = idle]

\* the search form calls handleSearchSubmit(query); without a selection
\* generateContent rejects at once and the catch runs before anything else
HandleSearchSubmit(query) ==
    LET r == generateContent(runtimeKeys, localStorage)
        started == SearchStarted(ui, query)
    IN  /\ ui.view \in {"landing", "results"}
        /\ ~ui.isLoading.searching
        /\ calls["search"].state # "pending"
        /\ runtimeKeys' = r.keys
        /\ IF r.call.state = "rejected"
           THEN /\ ui' = Rendered(SearchSettled(started, r.call))
                /\ last' = SettledStep("search", r.call, SearchCaught(r.call))
                /\ UNCHANGED <<calls, requests>>
           ELSE /\ ui' = Rendered(started)
                /\ calls' = [calls EXCEPT !["search"] = r.call]
                /\ requests' = [requests EXCEPT !["search"] = r.sent]
                /\ last' = [op |-> "handleSearchSubmit"]
        /\ UNCHANGED <<hasStorage, env, localStorage>>

\* the backend answers the request of the search
SearchSettles(outcome) ==
    LET call == Settled(calls["search"], outcome)
    IN  /\ calls["search"].state = "pending"
        /\ calls' = Freed(calls, "search", IdleCall)
        /\ requests' = Freed(requests, "search", << >>)
        /\ ui' = Rendered(SearchSettled(ui, call))
        /\ last' = SettledStep("search", call, SearchCaught(call))
        /\ UNCHANGED <<hasStorage, env, localStorage, runtimeKeys>>

\* a search result is clicked: handleAnalyzeRepo(url) up to its first await
HandleAnalyzeRepo(url) ==
    LET started == AnalysisStarted(ui, url)
    IN  /\ ui.view \in {"landing", "results"}
        /\ ui.searchResults[1] = "array" /\ ui.searchResults[2] > 0
        /\ ui.analysisStage = "idle"
        /\ IF Len(url) < 2
           THEN /\ ui' = Rendered(AnalysisFailed(started, InvalidUrlError))
                /\ last' = SettledStep("analysis", IdleCall, InvalidUrlError)
           ELSE /\ ui' = Rendered([started EXCEPT !.analysisStage = "github"])
                /\ last' = [op |-> "handleAnalyzeRepo"]
        /\ UNCHANGED <<hasStorage, env, localStorage, runtimeKeys, calls, requests>>

\* the hosting API answers: handleAnalyzeRepo up to its second await
GithubAnswers(g) ==
    LET r == generateContent(runtimeKeys, localStorage)
        withData == [ui EXCEPT !.analysisData = HostingData]
    IN  /\ ui.analysisStage = "github"
        /\ IF g.kind # "ok"
           THEN /\ ui' = Rendered(AnalysisFailed(ui, githubError(g)))
                /\ last' = SettledStep("analysis", IdleCall, githubError(g))
                /\ UNCHANGED <<runtimeKeys, calls, requests>>
           ELSE /\ runtimeKeys' = r.keys
                /\ IF r.call.state = "rejected"
                   THEN /\ ui' = Rendered(AnalysisFailed(withData, r.call.message))
                        /\ last' = SettledStep("analysis", r.call, r.call.message)
                        /\ UNCHANGED <<calls, requests>>
                   ELSE /\ ui' = Rendered([withData EXCEPT !.analysisStage = "generate"])
                        /\ calls' = [calls EXCEPT !["analysis"] = r.call]
                        /\ requests' = [requests EXCEPT !["analysis"] = r.sent]
                        /\ last' = [op |-> "githubAnswers"]
        /\ UNCHANGED <<hasStorage, env, localStorage>>

\* the backend answers the request of the analysis
AnalysisSettles(outcome) ==
    LET call == Settled(calls["analysis"], outcome)
    IN  /\ ui.analysisStage = "generate"
        /\ calls["analysis"].state = "pending"
        /\ calls' = Freed(calls, "analysis", IdleCall)
        /\ requests' = Freed(requests, "analysis", << >>)
        /\ ui' = Rendered(AnalysisSettled(ui, call))
        /\ last' = SettledStep("analysis", call, AnalysisCaught(call))
        /\ UNCHANGED <<hasStorage, env, localStorage, runtimeKeys>>

\* the Load More button, which is there when more than three similar
\* tools are listed
HandleLoadMoreSimilarTools ==
    LET r == generateContent(runtimeKeys, localStorage)
        started == [ui EXCEPT !.isLoadingMore = TRUE, !.error = Null]
    IN  /\ ui.view = "analysis"
        /\ ui.hasMoreSimilarTools /\ ~ui.isLoadingMore
        /\ Truthy(ui.analysisData["projectName"])
        /\ ui.analysisData["similarTools"][1] = "array"
        /\ calls["loadMore"].state # "pending"
        /\ runtimeKeys' = r.keys
        /\ IF r.call.state = "rejected"
           THEN /\ ui' = Rendered(LoadMoreSettled(started, r.call))
                /\ last' = SettledStep("loadMore", r.call, r.call.message)
                /\ UNCHANGED <<calls, requests>>
           ELSE /\ ui' = Rendered(started)
                /\ calls' = [calls EXCEPT !["loadMore"] = r.call]
                /\ requests' = [requests EXCEPT !["loadMore"] = r.sent]
                /\ last' = [op |-> "handleLoadMoreSimilarTools"]
        /\ UNCHANGED <<hasStorage, env, localStorage>>

LoadMoreSettles(outcome) ==
    LET call == Settled(calls["loadMore"], outcome)
    IN  /\ calls["loadMore"].state = "pending"
        /\ calls' = Freed(calls, "loadMore", IdleCall)
        /\ requests' = Freed(requests, "loadMore", << >>)
        /\ ui' = Rendered(LoadMoreSettled(ui, call))
        /\ last' = SettledStep("loadMore", call, SearchCaught(call))
        /\ UNCHANGED <<hasStorage, env, localStorage, runtimeKeys>>

\* the New Search button
HandleReset ==
    /\ ui.view # "landing"
    /\ ui' = Rendered([ui EXCEPT !.view = "landing", !.analysisData = NoData,
                                 !.searchResults = Null, !.error = Null])
    /\ last' = [op |-> "handleReset"]
    /\ UNCHANGED <<hasStorage, env, localStorage, runtimeKeys, calls, requests>>

\* the Back to Search Results button
HandleBackToSearch ==
    /\ ui.view = "analysis"
    /\ Truthy(ui.searchResults)
    /\ ui.analysisData # NoData
    /\ ui' = Rendered([ui EXCEPT !.view = "results", !.analysisData = NoData,
                                 !.error = Null])
    /\ last' = [op |-> "handleBackToSearch"]
    /\ UNCHANGED <<hasStorage, env, localStorage, runtimeKeys, calls, requests>>

\* the Privacy Policy and Terms of Service links of the footer, and the
\* way back from those pages
Navigate(view) ==
    /\ ui.view # view
    /\ ui' = [ui EXCEPT !.view = view]
    /\ last' = [op |-> "navigate"]
    /\ UNCHANGED <<hasStorage, env, localStorage, runtimeKeys, calls, requests>>

OnBack ==
    /\ ui.view \in {"privacy", "terms"}
    /\ ui' = [ui EXCEPT !.view = "landing"]
    /\ last' = [op |-> "onBack"]
    /\ UNCHANGED <<hasStorage, env, localStorage, runtimeKeys, calls, requests>>

\* the form of Chat is submitted with what was typed: Chat.handleSubmit up
\* to the await in handleChatMessage
ChatSubmit(typed) ==
    LET r == generateContent(runtimeKeys, localStorage)
        userMessage == [role |-> "user", content |-> Trim(typed)]
        started == [ui.chat EXCEPT !.messages = Append(@, userMessage),
                                   !.isLoading = TRUE]
    IN  /\ ui.chat.mounted
        /\ IF ~Truthy(Trim(typed)) \/ ui.chat.isLoading
           THEN /\ last' = [op |-> "chatSubmit", accepted |-> FALSE]
                /\ UNCHANGED <<runtimeKeys, calls, requests, ui>>
           ELSE /\ calls["chat"].state # "pending"
                /\ Len(ui.chat.messages) < 1 + 2 * MaxSends
                /\ runtimeKeys' = r.keys
                /\ IF r.call.state = "rejected"
                   THEN /\ ui' = [ui EXCEPT !.chat = ChatSettled(started, r.call)]
                        /\ last' = SettledStep("chat", r.call, r.call.message)
                        /\ UNCHANGED <<calls, requests>>
                   ELSE /\ ui' = [ui EXCEPT !.chat = started]
                        /\ calls' = [calls EXCEPT !["chat"] = r.call]
                        /\ requests' = [requests EXCEPT !["chat"] = r.sent]
                        /\ last' = [op |-> "chatSubmit", accepted |-> TRUE]
        /\ UNCHANGED <<hasStorage, env, localStorage>>

\* the backend answers the request of the chat; the Chat that sent it may
\* have left the screen
ChatSettles(outcome) ==
    LET call == Settled(calls["chat"], outcome)
    IN  /\ calls["chat"].state = "pending"
        /\ calls' = Freed(calls, "chat", IdleCall)
        /\ requests' = Freed(requests, "chat", << >>)
        /\ IF ui.orphanSend
           THEN /\ ui' = [ui EXCEPT !.orphanSend = FALSE]
                /\ last' = [op |-> "orphanSettles"]
           ELSE /\ ui' = [ui EXCEPT !.chat = ChatSettled(ui.chat, call)]
                /\ last' = SettledStep("chat", call,
                                       IF call.state = "rejected"
                                       THEN call.message ELSE Null)
        /\ UNCHANGED <<hasStorage, env, localStorage, runtimeKeys>>

\* App is opened in a browser with storage, with no key saved or with a
\* key for openai
InitApp ==
    /\ hasStorage = TRUE
    /\ env = [b \in Backends |-> Undefined]
    /\ localStorage \in { NoItems, [NoItems EXCEPT !["openai"] = <<"a">>] }
    /\ runtimeKeys = initializeKeys(NoKeys, localStorage)
    /\ calls = [c \in Callers |-> IdleCall]
    /\ requests = [c \in Callers |-> << >>]
    /\ ui = InitialUi(getActiveProvider(runtimeKeys, localStorage).value)
    /\ last = [op |-> "load"]

NextApp ==
    \/ \E query \in Queries : HandleSearchSubmit(query)
    \/ \E outcome \in AppOutcomes : SearchSettles(outcome)
    \/ \E url \in Urls : HandleAnalyzeRepo(url)
    \/ \E g \in GithubOutcomes : GithubAnswers(g)
    \/ \E outcome \in AppOutcomes : AnalysisSettles(outcome)
    \/ HandleLoadMoreSimilarTools
    \/ \E outcome \in AppOutcomes : LoadMoreSettles(outcome)
    \/ HandleReset
    \/ HandleBackToSearch
    \/ \E view \in Pages : Navigate(view)
    \/ OnBack
    \/ \E typed \in ChatInputs : ChatSubmit(typed)
    \/ \E outcome \in AppOutcomes : ChatSettles(outcome)

SpecApp == InitApp /\ [][NextApp]_vars

\* ---- properties -------------------------------------------------------

\* resolve(b) and selectBackend() in the current state
Resolve(b) == getApiKey(runtimeKeys, localStorage, b).value
Selected == getAvailableProvider(runtimeKeys, localStorage)

\* a is tried before b in the order gemini, groq, openai
Precedes(a, b) ==
    \/ a = "gemini" /\ b \in {"groq", "openai"}
    \/ a = "groq" /\ b = "openai"

\* a string (not undefined, not null) that is non-empty and has no space at
\* either end
IsTrimmedSecret(v) ==
    /\ v \notin {Undefined, Null}
    /\ v # << >>
    /\ Head(v) # " "
    /\ v[Len(v)] # " "

\* a supplied value that is a string with something other than spaces in it
NonBlank(v) == v \notin {Undefined, Null} /\ \E i \in 1..Len(v) : v[i] # " "

\* the backends that resolve to a non-empty secret
Configured == { b \in Backends : Truthy(Resolve(b)) }

\* C1: the selected backend is the first of gemini, groq, openai whose
\* resolved secret is non-empty, with that secret; there is no selection
\* only when no backend resolves to a secret; getActiveProvider reports it
C1_PriorityOrder ==
    /\ Selected.provider = "null" <=> Configured = {}
    /\ Configured # {} =>
          /\ Selected.provider \in Configured
          /\ \A b \in Configured : ~Precedes(b, Selected.provider)
          /\ Selected.apiKey = Resolve(Selected.provider)
    /\ last.op = "getActiveProvider" => last.value = Selected.provider

C1_Witness ==
    /\ last.op = "getActiveProvider"
    /\ last.value = "groq"
    /\ Configured = {"groq", "openai"}

\* nothing is configured: no runtime key, no persisted key, no default
NothingConfigured ==
    \A b \in Backends :
        ~Truthy(runtimeKeys[b]) /\ ~Truthy(localStorage[b]) /\ ~Truthy(env[b])

\* C2: with nothing configured, generateContent rejects with exactly the
\* no-key message, without a backend-name prefix, and issues no request
C2_NoKeyRejects ==
    \A c \in Callers :
        (last.op = "generateContent" /\ last.call = c /\ NothingConfigured) =>
            /\ calls[c].state = "rejected"
            /\ calls[c].message =
                  << "No API key configured. Please configure at least one API key in settings." >>
            /\ requests[c] = << >>

C2_Witness ==
    /\ last.op = "generateContent"
    /\ NothingConfigured
    /\ calls["search"].state = "rejected"
    /\ requests["search"] = << >>

C4_EmptyClears ==
    \A b \in Backends :
        (last.op = "setApiKeys" /\ last.keys[b] = << >>) =>
            /\ Resolve(b) = env[b]
            /\ runtimeKeys[b] = Undefined
            /\ localStorage[b] = Null

C4_Witness ==
    /\ hasStorage
    /\ last.op = "setApiKeys"
    /\ last.keys["gemini"] = << >>
    /\ last.keys["groq"] = <<"a">>
    /\ env["gemini"] = <<"e">>
    /\ Resolve("gemini") = <<"e">>

\* C5 as stated: update leaves the in-memory and the persisted value of a
\* backend that is not in its argument as they were
C5_Original ==
    [][ \A b \in Backends :
          (last'.op = "setApiKeys" /\ last'.keys[b] = Undefined) =>
              /\ runtimeKeys'[b] = runtimeKeys[b]
              /\ localStorage'[b] = localStorage[b] ]_vars

\* C5 as amended: update replaces the whole set: after it a backend that is
\* not in its argument has no in-memory and no persisted value
C5_AbsentRemoved ==
    \A b \in Backends :
        (last.op = "setApiKeys" /\ last.keys[b] = Undefined) =>
            /\ runtimeKeys[b] = Undefined
            /\ localStorage[b] = Null

C5_Witness ==
    /\ hasStorage
    /\ last.op = "setApiKeys"
    /\ last.keys["gemini"] = <<"a">>
    /\ last.keys["groq"] = Undefined
    /\ runtimeKeys["gemini"] = <<"a">>
    /\ runtimeKeys["groq"] = Undefined
    /\ localStorage["groq"] = Null

C7_UserFirst ==
    /\ \A b \in Backends : Truthy(runtimeKeys[b]) => Resolve(b) = runtimeKeys[b]
    /\ last.op = "getApiKey" =>
          last.value = IF runtimeKeys[last.provider] # Undefined
                       THEN runtimeKeys[last.provider]
                       ELSE env[last.provider]

C7_Witness ==
    /\ last.op = "getApiKey"
    /\ last.provider = "openai"
    /\ runtimeKeys["openai"] = <<"a">>
    /\ env["openai"] = <<"e">>
    /\ last.value = <<"a">>

\* C8: after update with persistent storage available, the in-memory and the
\* persisted entry of every backend agree: both are the trimmed value when
\* the supplied value has something other than spaces, both are removed when
\* it is absent, empty or spaces only
C8_MemoryAndStorageAgree ==
    (hasStorage /\ last.op = "setApiKeys") =>
        \A b \in Backends :
            IF NonBlank(last.keys[b])
            THEN /\ runtimeKeys[b] = Trim(last.keys[b])
                 /\ localStorage[b] = Trim(last.keys[b])
                 /\ IsTrimmedSecret(runtimeKeys[b])
            ELSE /\ runtimeKeys[b] = Undefined
                 /\ localStorage[b] = Null

C8_Witness ==
    /\ hasStorage
    /\ last.op = "setApiKeys"
    /\ last.keys["gemini"] = <<" ", "a", " ">>
    /\ last.keys["groq"] = <<" ", " ">>
    /\ last.keys["openai"] = << >>
    /\ runtimeKeys = [NoKeys EXCEPT !["gemini"] = <<"a">>]
    /\ localStorage = [NoItems EXCEPT !["gemini"] = <<"a">>]

\* C9: every in-memory entry is undefined or a non-empty string with no
\* space at either end
C9_EntriesTrimmed ==
    \A b \in Backends :
        runtimeKeys[b] = Undefined \/ IsTrimmedSecret(runtimeKeys[b])

C9_Witness ==
    /\ last.op = "getApiKey"
    /\ runtimeKeys["groq"] = <<"a">>
    /\ runtimeKeys["gemini"] = Undefined

\* C10: a write into the object getApiKeys() returned changes neither the
\* cache nor what getApiKeys, getApiKey and getAvailableProvider give next
C10_ReadReturnsCopy ==
    [][ last'.op = "mutate" =>
            /\ runtimeKeys' = runtimeKeys
            /\ getApiKeys(runtimeKeys', localStorage').value.obj =
                   getApiKeys(runtimeKeys, localStorage).value.obj
            /\ \A b \in Backends :
                   getApiKey(runtimeKeys', localStorage', b).value = Resolve(b)
            /\ getAvailableProvider(runtimeKeys', localStorage').provider =
                   Selected.provider ]_vars

C10_Witness ==
    /\ last.op = "mutate"
    /\ last.value.obj["gemini"] = <<"x">>
    /\ runtimeKeys["gemini"] = <<"a">>

\* the persisted entries as initializeKeys reads them
Persisted == [b \in Backends |-> IF Truthy(localStorage[b]) THEN localStorage[b] ELSE Undefined]

\* C11: getApiKeys() reloads from persistent storage exactly when every
\* in-memory entry is absent: it then returns the persisted entries (the
\* empty set without persistent storage); with an entry present it returns
\* the in-memory set, whatever the storage holds
C11_ReadReloadsWhenEmpty ==
    [][ last'.op = "getApiKeys" =>
            /\ last'.value.obj =
                   IF \A b \in Backends : runtimeKeys[b] = Undefined
                   THEN (IF hasStorage THEN Persisted ELSE NoKeys)
                   ELSE runtimeKeys
            /\ runtimeKeys' = last'.value.obj
            /\ localStorage' = localStorage ]_vars

C11_Witness ==
    /\ last.op = "getApiKeys"
    /\ last.value.obj["groq"] = <<"a">>
    /\ localStorage["groq"] = Null
    /\ localStorage["gemini"] = <<"a">>
    /\ last.value.obj["gemini"] = Undefined

\* C12: with the persisted entries and the defaults unchanged, a repeated
\* getActiveProvider() reports the backend the call before it reported: the
\* state a call leaves gives the same selection again and is left as it is
C12_SelectionRepeats ==
    last.op = "getActiveProvider" =>
        LET again == getActiveProvider(runtimeKeys, localStorage)
            third == getActiveProvider(again.keys, localStorage)
        IN  /\ again.value = last.value
            /\ again.keys = runtimeKeys
            /\ third.value = last.value
            /\ getAvailableProvider(runtimeKeys, localStorage).provider = last.value

C12_Witness ==
    /\ last.op = "getActiveProvider"
    /\ last.value = "openai"
    /\ runtimeKeys["openai"] = <<"a">>
    /\ env["gemini"] = Undefined

\* C13 as stated: getActiveProvider and generateContent, up to the settling
\* of the invocation, leave the in-memory keys and the storage as they were
C13_Original ==
    [][ last'.op \in {"getActiveProvider", "generateContent", "answer"} =>
            /\ runtimeKeys' = runtimeKeys
            /\ localStorage' = localStorage ]_vars

\* C13: getActiveProvider and generateContent never write the storage; they
\* change the in-memory keys only when every entry is absent and storage
\* is available, and then to the entries the storage holds; the settling
\* of an invocation changes neither
C13_ReadOnlyButReload ==
    [][ /\ last'.op \in {"getActiveProvider", "generateContent", "answer"} =>
            /\ localStorage' = localStorage
            /\ \/ runtimeKeys' = runtimeKeys
               \/ /\ \A b \in Backends : runtimeKeys[b] = Undefined
                  /\ hasStorage
                  /\ runtimeKeys' = Persisted
        /\ last'.op = "answer" => runtimeKeys' = runtimeKeys ]_vars

C13_Witness ==
    /\ last.op = "generateContent"
    /\ calls["search"].state = "pending"
    /\ calls["search"].provider = "groq"
    /\ runtimeKeys["groq"] = <<"a">>
    /\ runtimeKeys["gemini"] = Undefined
    /\ localStorage["gemini"] = <<"a">>
    /\ env["gemini"] = Undefined

\* C14: generateContent issues its request to the provider the selection
\* gives in that state (the one getActiveProvider reports), with the key
\* resolved for it, and a success response resolves the invocation with
\* the content of that response
C14_DispatchesToSelected ==
    \A c \in Callers :
        /\ (last.op = "generateContent" /\ last.call = c
                /\ Selected.provider # "null") =>
               /\ calls[c].state = "pending"
               /\ calls[c].provider = Selected.provider
               /\ calls[c].provider = getActiveProvider(runtimeKeys, localStorage).value
               /\ Len(requests[c]) = 1
               /\ requests[c][1].provider = Selected.provider
               /\ requests[c][1].apiKey = Resolve(Selected.provider)
        /\ (last.op = "answer" /\ last.call = c /\ last.outcome.kind = "ok") =>
               /\ calls[c].state = "resolved"
               /\ calls[c].message = last.outcome.content
               /\ calls[c].provider = requests[c][1].provider

C14_Witness ==
    /\ last.op = "answer"
    /\ last.outcome.kind = "ok"
    /\ calls["search"].state = "resolved"
    /\ calls["search"].provider = "groq"
    /\ calls["search"].message = <<"{}">>
    /\ requests["search"][1].provider = "groq"
    /\ ~Truthy(Resolve("gemini"))

\* the transport reported a failure: a non-success response or no response
Failed(outcome) == outcome.kind \in {"http", "network"}

C16_Original ==
    \A c \in Callers :
        (/\ last.op = "answer" /\ last.call = c /\ Failed(last.outcome)
         /\ \E b \in Configured : Precedes(calls[c].provider, b)) =>
            calls[c].state # "rejected"

\* the piece of text occurs in the message
Contains(message, piece) == \E i \in 1..Len(message) : message[i] = piece

\* the description a failed response gives of itself: error.message of its
\* body, or its status text when the body is not parseable
Described(outcome) ==
    IF outcome.errorMessage # Undefined THEN outcome.errorMessage
    ELSE outcome.statusText

\* C17 as stated: for every provider a non-success response rejects the
\* invocation with a message that holds the provider's name, the numeric
\* status and the description of the failure
C17_Original ==
    \A c \in Callers :
        (last.op = "answer" /\ last.call = c /\ last.outcome.kind = "http") =>
            /\ calls[c].state = "rejected"
            /\ Contains(calls[c].message, calls[c].provider)
            /\ Contains(calls[c].message, ToString(last.outcome.status))
            /\ Contains(calls[c].message, Described(last.outcome)[1])

\* C17: a non-success response rejects the invocation with a message that
\* starts with the provider's name; for groq and openai it goes on with
\* the name of the API, the numeric status and, last, the description of
\* the failure; for gemini it goes on with the message of the client's
\* error and nothing else
C17_HttpErrorMessage ==
    \A c \in Callers :
        (last.op = "answer" /\ last.call = c /\ last.outcome.kind = "http") =>
            LET m == calls[c].message
            IN  /\ calls[c].state = "rejected"
                /\ m[1] = calls[c].provider
                /\ IF calls[c].provider = "gemini"
                   THEN SubSeq(m, 3, Len(m)) = last.outcome.sdkMessage
                   ELSE /\ Contains(m, IF calls[c].provider = "groq"
                                       THEN "Groq" ELSE "OpenAI")
                        /\ Contains(m, ToString(last.outcome.status))
                        /\ <<m[Len(m)]>> = Described(last.outcome)

C17_Witness ==
    /\ last.op = "answer"
    /\ last.outcome.kind = "http"
    /\ last.outcome.errorMessage = Undefined
    /\ calls["search"].provider = "openai"
    /\ calls["search"].message =
           <<"openai", " API error: ", "OpenAI", " API error (", "401", "): ",
             "Unauthorized">>

\* the call function of the provider throws on this outcome: the transport
\* failed, or the envelope of a chat completion has no choices to index
Raised(provider, outcome) ==
    \/ Failed(outcome)
    \/ outcome.kind = "nochoices" /\ provider # "gemini"

\* C18: whenever the call function throws (rejection by the backend,
\* network failure, envelope without choices), the invocation is rejected,
\* never resolved, and its message is the provider's name, " API error: ",
\* and then the message of the error thrown, piece for piece
C18_FailuresWrapped ==
    \A c \in Callers :
        (last.op = "answer" /\ last.call = c
            /\ Raised(calls[c].provider, last.outcome)) =>
            LET m == calls[c].message
                thrown == CallResult(calls[c].provider, last.outcome)
            IN  /\ calls[c].state = "rejected"
                /\ thrown.threw
                /\ Len(m) = 2 + Len(thrown.value)
                /\ m[1] = calls[c].provider
                /\ m[2] = " API error: "
                /\ SubSeq(m, 3, Len(m)) = thrown.value

C18_Witness ==
    /\ last.op = "answer"
    /\ last.outcome.kind = "nochoices"
    /\ calls["search"].state = "rejected"
    /\ calls["search"].message =
           <<"groq", " API error: ",
             "Cannot read properties of undefined (reading '0')">>

\* the provider that runs the server
OwnerOf(endpoint) ==
    IF endpoint = "generativelanguage.googleapis.com" THEN "gemini"
    ELSE IF endpoint = "api.groq.com" THEN "groq"
    ELSE "openai"

\* C19: the key in a request generateContent has just issued is the key
\* resolved for the provider whose server the request goes to, and a
\* non-empty one
C19_KeyGoesToItsProvider ==
    \A c \in Callers :
        (last.op = "generateContent" /\ last.call = c) =>
            \A i \in 1..Len(requests[c]) :
                /\ requests[c][i].apiKey = Resolve(OwnerOf(requests[c][i].endpoint))
                /\ Truthy(requests[c][i].apiKey)
                /\ requests[c][i].provider = OwnerOf(requests[c][i].endpoint)

C19_Witness ==
    /\ last.op = "generateContent"
    /\ Len(requests["search"]) = 1
    /\ requests["search"][1].endpoint = "api.groq.com"
    /\ requests["search"][1].apiKey = <<"a">>
    /\ Resolve("openai") = <<"e">>

\* the JSON texts of at most MaxText units, by the grammar: a number is
\* one digit or more, an object is {} or {"k": value}
RECURSIVE JsonTexts(_)
JsonTexts(depth) ==
    LET numbers == { [i \in 1..n |-> "1"] : n \in 1..MaxText }
    IN  IF depth = 0 THEN numbers \cup { <<"{", "}">> }
        ELSE JsonTexts(depth - 1) \cup
                 { <<"{", "K">> \o v \o <<"}">> :
                       v \in { w \in JsonTexts(depth - 1) : Len(w) + 3 <= MaxText } }

ValidJson(s) == s \in JsonTexts(MaxText \div 3)

\* C20: safeJsonParse never throws; it gives null or the value of the
\* string it handed to JSON.parse (the whole text when a brace is missing),
\* and null whenever that string is not valid JSON
C20_NeverThrows ==
    last.op = "safeJsonParse" =>
        LET r == last.result
        IN  /\ ~r.threw
            /\ (indexOf(last.text, "{") = -1 \/ lastIndexOf(last.text, "}") = -1)
                   => r.jsonString = last.text
            /\ ~ValidJson(r.jsonString) => r.value = Null
            /\ ValidJson(r.jsonString) =>
                   /\ r.value # Null
                   /\ r.value = JSONparse(r.jsonString).value

C20_Witness ==
    /\ last.op = "safeJsonParse"
    /\ last.text = <<"x", "{", "K", "1", "x", "}">>
    /\ last.result.value = Null
    /\ ~last.result.threw

\* the JSON texts that are objects, and the texts without a brace
JsonObjects == { t \in JsonTexts(MaxText \div 3) : t[1] = "{" }

BraceFree(s) == \A i \in 1..Len(s) : s[i] \notin {"{", "}"}

\* C21: when the text is a prefix without braces, a JSON object and a
\* suffix without braces, safeJsonParse gives the value JSON.parse gives
\* for the object alone, which is not null
C21_ToleratesProse ==
    last.op = "safeJsonParse" =>
        \A i \in 0..Len(last.text), j \in 0..Len(last.text) :
            (/\ i < j
             /\ BraceFree(SubSeq(last.text, 1, i))
             /\ SubSeq(last.text, i + 1, j) \in JsonObjects
             /\ BraceFree(SubSeq(last.text, j + 1, Len(last.text)))) =>
                /\ last.result.value = JSONparse(SubSeq(last.text, i + 1, j)).value
                /\ last.result.value # Null
                /\ last.result.value[1] = "object"

C21_Witness ==
    /\ last.op = "safeJsonParse"
    /\ last.text = <<"x", "{", "K", "{", "}", "}">>
    /\ last.result.value = <<"object", << <<"k", <<"object", << >> >> >> >> >>

\* C22: when the text is two JSON objects with a non-empty text without
\* braces between them, inside prose without braces, safeJsonParse hands
\* JSON.parse the span from the start of the first object to the end of
\* the second and gives null, not the value of either object
C22_TwoObjectsGiveNull ==
    last.op = "safeJsonParse" =>
        \A i \in 0..Len(last.text), j \in 0..Len(last.text),
           k \in 0..Len(last.text), l \in 0..Len(last.text) :
            (/\ i < j /\ j < k /\ k < l
             /\ BraceFree(SubSeq(last.text, 1, i))
             /\ SubSeq(last.text, i + 1, j) \in JsonObjects
             /\ BraceFree(SubSeq(last.text, j + 1, k))
             /\ SubSeq(last.text, k + 1, l) \in JsonObjects
             /\ BraceFree(SubSeq(last.text, l + 1, Len(last.text)))) =>
                /\ last.result.jsonString = SubSeq(last.text, i + 1, l)
                /\ last.result.value = Null

C22_Witness ==
    /\ last.op = "safeJsonParse"
    /\ last.text = <<"x", "{", "}", "x", "{", "}">>
    /\ last.result.jsonString = <<"{", "}", "x", "{", "}">>
    /\ last.result.value = Null

\* C25 as stated: when the text has both braces, the string handed to
\* JSON.parse is the text from the first "{" through the last "}", which
\* is empty when that "}" comes first, so a result other than null comes
\* from a string that starts with "{" and ends with "}"
C25_Original ==
    (/\ last.op = "safeJsonParse"
     /\ indexOf(last.text, "{") # -1
     /\ lastIndexOf(last.text, "}") # -1) =>
        LET s == last.result.jsonString
        IN  /\ s = SubSeq(last.text, indexOf(last.text, "{") + 1,
                          lastIndexOf(last.text, "}") + 1)
            /\ last.result.value # Null =>
                   (s # << >> /\ s[1] = "{" /\ s[Len(s)] = "}")

\* what the user is shown when a handler has failed: the error line of App,
\* or the last message of the Chat
Displayed(handler) ==
    IF handler = "chat" THEN ui.chat.messages[Len(ui.chat.messages)].content
    ELSE ui.error

\* a handler has just caught the rejection of generateContent for want of
\* a key
NoKeyCaught ==
    /\ last.op = "settles"
    /\ last.call.state = "rejected"
    /\ last.call.message =
           << "No API key configured. Please configure at least one API key in settings." >>

\* C23 as stated: when generateContent rejects for want of a key, the user
\* is shown exactly the message of that rejection
C23_Original == NoKeyCaught => Displayed(last.handler) = last.call.message

\* C23: when generateContent rejects for want of a key, the user is never
\* shown the message of that rejection.  A search or an analysis that fails
\* with a message holding "API key", as that message does, shows the hint
\* that no valid key was found; a load-more and a chat that fail, for
\* whatever reason, show their fixed texts
C23_NoKeyShownAsHint ==
    /\ NoKeyCaught => Displayed(last.handler) # last.call.message
    /\ (/\ last.op = "settles"
        /\ last.handler \in {"search", "analysis"}
        /\ last.caught # Null
        /\ includes(last.caught, "No API key") \/ includes(last.caught, "API key")) =>
           ui.error = << "No valid API key found. Please click Settings to add your API key." >>
    /\ (last.op = "settles" /\ last.handler = "loadMore" /\ last.caught # Null) =>
           ui.error = << "Failed to load more similar tools." >>
    /\ (last.op = "settles" /\ last.handler = "chat" /\ last.caught # Null) =>
           ui.chat.messages[Len(ui.chat.messages)] =
               [role |-> "assistant",
                content |-> << "Sorry, I encountered an error. Please try again." >>]

C23_Witness ==
    /\ NoKeyCaught
    /\ last.handler = "search"
    /\ last.caught = last.call.message
    /\ ui.error = << "No valid API key found. Please click Settings to add your API key." >>
    /\ ui.view = "landing"

\* a search or an analysis has just failed
SearchOrAnalysisFailed ==
    /\ last.op = "settles"
    /\ last.handler \in {"search", "analysis"}
    /\ last.caught # Null

\* C24 as stated: a failed search or analysis whose message holds "403" or
\* "401" shows the invalid-or-expired-key hint, and one whose message holds
\* "quota" shows the quota hint, whatever else the message holds
C24_Original ==
    SearchOrAnalysisFailed =>
        /\ (includes(last.caught, "403") \/ includes(last.caught, "401")) =>
               ui.error = InvalidKeyHint
        /\ includes(last.caught, "quota") =>
               ui.error \in {SearchQuotaHint, AnalysisQuotaHint}

\* C24: the tests are made in order.  A message that holds "API key" shows
\* the no-valid-key hint, whatever else it holds; otherwise one that holds
\* "403", "401", "INVALID" or "expired" shows the invalid-or-expired-key
\* hint; otherwise one that holds "quota" shows the quota hint of the
\* handler
C24_HintsInOrder ==
    SearchOrAnalysisFailed =>
        LET key == includes(last.caught, "API key")
            status == \/ includes(last.caught, "403") \/ includes(last.caught, "401")
                      \/ includes(last.caught, "INVALID")
                      \/ includes(last.caught, "expired")
        IN  /\ key => ui.error = << "No valid API key found. Please click Settings to add your API key." >>
            /\ (~key /\ status) =>
                   ui.error = << "Invalid or expired API key. Please click Settings to update your API key." >>
            /\ (~key /\ ~status /\ includes(last.caught, "quota")) =>
                   ui.error = IF last.handler = "search"
                              THEN << "API quota exceeded. Please try again later." >>
                              ELSE << "API quota exceeded. Please try again later or use a different API key." >>

C24_Witness ==
    /\ SearchOrAnalysisFailed
    /\ last.handler = "search"
    /\ includes(last.caught, "401")
    /\ includes(last.caught, "API key")
    /\ ui.error = << "No valid API key found. Please click Settings to add your API key." >>

C28_AnalysisEndsClean ==
    (last.op = "settles" /\ last.handler = "analysis") =>
        /\ ~ui.isLoading.analyzing
        /\ ui.analyzingUrl = Null
        /\ last.caught # Null => (ui.error # Null /\ ui.error # << >>)

C28_Witness ==
    /\ last.op = "settles"
    /\ last.handler = "analysis"
    /\ last.caught = InvalidFormatError
    /\ ui.error = << "Analysis failed: " >> \o InvalidFormatError
    /\ ~ui.isLoading.analyzing
    /\ ui.analyzingUrl = Null

\* C29 as stated: when a search that was in flight at a handleReset, or at
\* a navigation to the privacy view, completes before any other user
\* action, the view and the search results stay as the user left them
C29_Original ==
    [][ (/\ last.op \in {"handleReset", "navigate"}
         /\ last'.op = "settles"
         /\ last'.handler = "search") =>
            /\ ui'.view = ui.view
            /\ ui'.searchResults = ui.searchResults ]_vars

\* C30 as stated: a successful analysis leaves projectName, repoUrl and
\* stats as they were set from the answer of the hosting API, whatever
\* members the parsed object of the model has
C30_Original ==
    [][ (/\ last'.op = "settles"
         /\ last'.handler = "analysis"
         /\ last'.caught = Null
         /\ \A f \in {"projectName", "repoUrl", "stats"} :
                ui.analysisData[f] = HostingData[f]) =>
            \A f \in {"projectName", "repoUrl", "stats"} :
                ui'.analysisData[f] = HostingData[f] ]_vars

\* C26: the provider and the key of an invocation of generateContent are
\* fixed when it starts.  While it is pending, no step of another
\* invocation and no update of the keys changes its request, its provider
\* or its key; only its own answer settles it, and the error of a failed
\* answer carries the provider the request went to.  An update replaces
\* the whole set in one step, and a selection made after it is made from
\* that whole set
C26_CallsIsolated ==
    [][ /\ \A c \in Callers :
              calls[c].state = "pending" =>
                  /\ requests'[c] = requests[c]
                  /\ calls'[c].provider = calls[c].provider
                  /\ calls'[c].apiKey = calls[c].apiKey
                  /\ calls'[c].provider = requests[c][1].provider
                  /\ calls'[c].apiKey = requests[c][1].apiKey
                  /\ (calls'[c] # calls[c]) => (last'.op = "answer" /\ last'.call = c)
                  /\ calls'[c].state = "rejected" =>
                         calls'[c].message[1] = requests[c][1].provider
        /\ (last'.op = "setApiKeys" /\ hasStorage) =>
               \A b \in Backends : runtimeKeys'[b] = last'.keys[b]
        /\ \A c \in Callers :
              (last'.op = "generateContent" /\ last'.call = c
                   /\ calls'[c].state = "pending") =>
                  /\ calls'[c].provider =
                         getAvailableProvider(runtimeKeys, localStorage).provider
                  /\ calls'[c].apiKey =
                         getAvailableProvider(runtimeKeys, localStorage).apiKey
      ]_vars

C26_Witness ==
    /\ last.op = "answer"
    /\ last.call = "search"
    /\ calls["search"].state = "rejected"
    /\ calls["search"].provider = "gemini"
    /\ calls["search"].message[1] = "gemini"
    /\ requests["search"][1].apiKey = <<"a">>
    /\ runtimeKeys["gemini"] = Undefined
    /\ calls["chat"].state = "pending"
    /\ calls["chat"].provider = "groq"
====
